---- MODULE Spec2Model ----
(***************************************************************************)
(* State-machine model of src/sleep/sleep.c (systemd-sleep): the kernel    *)
(* control-file writers (write_hibernate_location_info, write_mode,        *)
(* write_state), one sleep transition (execute) and the                    *)
(* suspend-then-hibernate controller (execute_s2h), as called from run().  *)
(*                                                                         *)
(* The kernel, the file system and the hook runner are the environment:    *)
(* what they answer to one call of a function is drawn from a small set    *)
(* when the function is entered and kept in `env`.  System calls return 0  *)
(* or a negative errno, as in the source.                                  *)
(***************************************************************************)
EXTENDS Integers, Sequences, FiniteSets, TLC

\* Longest mode / state token list passed to execute().
MaxLen == 2

\* errno values used by the source.
ENOENT == 2
EINVAL == 22
\* Other errno values a failing call may leave (EIO, EBUSY).
Errnos == {5, 16}
NegErrs == {-e : e \in Errnos}
\* errno left by a failed fopen("/sys/power/state") (ENOMEM).
OpenErrnos == {12}

NULL == 0

ModeTokens == <<"platform", "shutdown", "reboot", "suspend">>
StateTokens == <<"mem", "standby", "freeze", "disk">>

\* The token lists a caller may pass: the first n tokens, n <= MaxLen.
ModeLists == {SubSeq(ModeTokens, 1, n) : n \in 0..MaxLen}
StateLists == {SubSeq(StateTokens, 1, n) : n \in 0..MaxLen}
\* The lists of the suspend-then-hibernate configuration (SleepConfig).
S2hModeLists == {SubSeq(ModeTokens, 1, n) : n \in {0, 1}}
S2hStateLists == {SubSeq(StateTokens, 1, n) : n \in {0, 1}}

PowerResume == "/sys/power/resume"
PowerResumeOffset == "/sys/power/resume_offset"
PowerDisk == "/sys/power/disk"
PowerState == "/sys/power/state"

(***************************************************************************)
(* Trace events: one record per control-file write, per fopen/fclose of    *)
(* /sys/power/state and per start/end of a hook batch.                     *)
(***************************************************************************)
Ev(op, file, val, h, res) == [op |-> op, file |-> file, val |-> val, h |-> h, res |-> res]

WriteEv(file, val, res) == Ev("write", file, val, NULL, res)

RECURSIVE SelectEv(_, _)
SelectEv(s, op) ==
    IF s = <<>> THEN <<>>
    ELSE IF Head(s).op = op THEN <<Head(s)>> \o SelectEv(Tail(s), op)
    ELSE SelectEv(Tail(s), op)

Writes(s) == SelectEv(s, "write")

\* The hook batches started in s, in order: "pre" or "post" for each.
HookPhases(s) ==
    LET b == SelectEv(s, "hooks_begin") IN [i \in 1..Len(b) |-> b[i].file]

RECURSIVE WritesTo(_, _)
WritesTo(s, file) ==
    IF s = <<>> THEN <<>>
    ELSE IF Head(s).op = "write" /\ Head(s).file = file
         THEN <<Head(s)>> \o WritesTo(Tail(s), file)
    ELSE WritesTo(Tail(s), file)

(***************************************************************************)
(* Values written to a control file: a token or path (s), or a string of   *)
(* digits (d) produced by xsprintf or taken from the kernel command line.  *)
(***************************************************************************)
Str(s) == [s |-> s, d |-> <<>>]
Digits(d) == [s |-> "", d |-> d]

\* xsprintf(..., "%" PRIu64, n) and xsprintf(..., "%lx", n): the digits of n.
RECURSIVE ToBase(_, _)
ToBase(n, b) == IF n < b THEN <<n>> ELSE ToBase(n \div b, b) \o <<n % b>>

\* arg_resume_offset: NULL, or the string strdup()ed from the command line.
NoOffset == [set |-> FALSE, s |-> <<>>]

\* /proc/cmdline as proc_cmdline_parse hands it to the callback: key, value
\* (has_value = FALSE is a key given without "=value").
CmdItem(key, has_value, value) == [key |-> key, has_value |-> has_value, value |-> value]
ProcCmdlines ==
    { <<CmdItem("quiet", FALSE, <<>>), CmdItem("resume_offset", FALSE, <<>>)>>,
      <<CmdItem("resume_offset", TRUE, <<1, 2, 3, 4, 5>>), CmdItem("quiet", FALSE, <<>>)>> }

\* Mutation of parse_proc_cmdline_item: the value is not stored.
parse_proc_cmdline_item_ignored(item, arg) == arg

\* parse_proc_cmdline_item: the new value of arg_resume_offset.
parse_proc_cmdline_item(item, arg) ==
    IF item.key = "resume_offset"
    THEN IF ~item.has_value THEN arg
         ELSE [set |-> TRUE, s |-> item.value]
    ELSE arg

\* proc_cmdline_parse(parse_proc_cmdline_item, NULL, 0) on a readable command line.
RECURSIVE proc_cmdline_parse(_, _)
proc_cmdline_parse(items, arg) ==
    IF items = <<>> THEN arg
    ELSE proc_cmdline_parse(Tail(items), parse_proc_cmdline_item(Head(items), arg))

(***************************************************************************)
(* What the system answers to one call of write_hibernate_location_info:   *)
(* r values are 0 or a negative errno, errno values are 0 or positive.     *)
(***************************************************************************)
PhysSet == {4095, 8192}
PageSizes == {4096}

LocAllOk(type, phys, page) ==
    [find |-> 0, type |-> type, device |-> "/dev/sda2", w_resume |-> 0,
     access |-> 0, open |-> 0, fstat |-> 0, st_dev |-> 2049,
     fiemap |-> 0, extents |-> 1, phys |-> phys, page |-> page,
     cmdline |-> 0, errno |-> 0, w_offset |-> 0]

LocEnvs ==
    LET P == LocAllOk("partition", 0, 4096)
        F == LocAllOk("file", 8192, 4096)
    IN  {[P EXCEPT !.find = e] : e \in NegErrs}
        \cup {P} \cup {[P EXCEPT !.w_resume = e] : e \in NegErrs}
        \cup {LocAllOk("other", 0, 4096)}
        \cup {[F EXCEPT !.access = e] : e \in {ENOENT} \cup Errnos}
        \cup {[F EXCEPT !.open = e] : e \in Errnos}
        \cup {[F EXCEPT !.fstat = e] : e \in Errnos}
        \cup {[F EXCEPT !.fiemap = e] : e \in NegErrs}
        \cup {[F EXCEPT !.extents = 0]}
        \cup {[F EXCEPT !.cmdline = e, !.errno = x] : e \in NegErrs, x \in Errnos}
        \cup {LocAllOk("file", p, s) : p \in PhysSet, s \in PageSizes}
        \cup {[F EXCEPT !.w_offset = e] : e \in NegErrs}
        \cup {[F EXCEPT !.w_resume = e] : e \in NegErrs}

LocRet(r, events, arg) == [r |-> r, events |-> events, arg |-> arg]

\* A call write_hibernate_location_info makes besides its writes, with its result.
LocCall(op, file, res) == Ev(op, file, Str(""), NULL, res)

\* Mutation of WriteFailed: the result of the write is not looked at.
WriteFailedIgnored(r) == FALSE

\* "if (r < 0) return ..." after write_string_file.
WriteFailed(r) == r < 0

\* Mutation of write_file_location: the device number is written first.
write_file_location_resume_first(e, arg) ==
    LET offset_str == IF arg.set THEN arg.s ELSE ToBase(e.phys \div e.page, 10)
        w1 == WriteEv(PowerResumeOffset, Digits(offset_str), e.w_offset)
        device_str == ToBase(e.st_dev, 16)
        w2 == WriteEv(PowerResume, Digits(device_str), e.w_resume)
    IN  IF WriteFailed(e.w_resume) THEN LocRet(e.w_resume, <<w2>>, arg)
        ELSE IF WriteFailed(e.w_offset) THEN LocRet(e.w_offset, <<w2, w1>>, arg)
        ELSE LocRet(0, <<w2, w1>>, arg)

\* The end of write_hibernate_location_info for a swap file, once the command
\* line is parsed: the offset is written, then the device number.
write_file_location(e, arg) ==
    LET offset_str == IF arg.set THEN arg.s ELSE ToBase(e.phys \div e.page, 10)
        w1 == WriteEv(PowerResumeOffset, Digits(offset_str), e.w_offset)
        device_str == ToBase(e.st_dev, 16)
        w2 == WriteEv(PowerResume, Digits(device_str), e.w_resume)
    IN  IF WriteFailed(e.w_offset) THEN LocRet(e.w_offset, <<w1>>, arg)
        ELSE IF WriteFailed(e.w_resume) THEN LocRet(e.w_resume, <<w1, w2>>, arg)
        ELSE LocRet(0, <<w1, w2>>, arg)

\* Mutation of streq: the strings are never found equal.
streq_never(a, b) == FALSE

\* streq(type, "partition"), streq(type, "file").
streq(a, b) == a = b

\* Mutation of KernelTooOld: the missing control file is an error like any other.
KernelTooOldNever(errno) == FALSE

\* "if (errno == ENOENT)" after access("/sys/power/resume_offset", W_OK) failed.
KernelTooOld(errno) == errno = ENOENT

\* write_hibernate_location_info(): its result, the calls and control-file
\* writes it made, in order, and arg_resume_offset afterwards.
write_hibernate_location_info(e, cmdline, arg) ==
    LET find == <<LocCall("find_hibernate_location", "", e.find)>>
        access == find \o <<LocCall("access", PowerResumeOffset, -e.access)>>
        open == access \o <<LocCall("open", e.device, -e.open)>>
        fstat == open \o <<LocCall("fstat", e.device, -e.fstat)>>
        fiemap == fstat \o <<LocCall("read_fiemap", e.device, e.fiemap)>>
        parse == fiemap \o <<LocCall("proc_cmdline_parse", "/proc/cmdline", e.cmdline)>>
        rest == write_file_location(e, proc_cmdline_parse(cmdline, arg))
    IN  IF e.find < 0 THEN LocRet(e.find, find, arg)
        ELSE IF streq(e.type, "partition")
        THEN LocRet(e.w_resume,
                    find \o <<WriteEv(PowerResume, Str(e.device), e.w_resume)>>, arg)
        ELSE IF ~streq(e.type, "file") THEN LocRet(-EINVAL, find, arg)
        ELSE IF e.access # 0
        THEN (IF KernelTooOld(e.access) THEN LocRet(0, access, arg)
              ELSE LocRet(-e.access, access, arg))
        ELSE IF e.open # 0 THEN LocRet(-e.open, open, arg)
        ELSE IF e.fstat # 0 THEN LocRet(-e.fstat, fstat, arg)
        ELSE IF e.fiemap < 0 THEN LocRet(e.fiemap, fiemap, arg)
        ELSE IF e.extents = 0 THEN LocRet(-EINVAL, fiemap, arg)
        ELSE IF e.cmdline < 0 THEN LocRet(-e.errno, parse, arg)
        ELSE LocRet(rest.r, parse \o rest.events, rest.arg)

(***************************************************************************)
(* What the kernel answers to the tokens of one list: for token i, k[i] is *)
(* the result of writing it (0 or a negative errno); for /sys/power/state  *)
(* reopen[i] is the errno of the fopen that follows a rejected write of    *)
(* token i (0: the fopen succeeds).                                        *)
(***************************************************************************)
RECURSIVE SeqsOf(_, _)
SeqsOf(S, n) == IF n = 0 THEN {<<>>} ELSE {<<x>> \o t : x \in S, t \in SeqsOf(S, n - 1)}

DiskEnvs(modes) == SeqsOf({0} \cup NegErrs, Len(modes))

StateAnswers ==
    {[k |-> 0, reopen |-> 0]} \cup {[k |-> e, reopen |-> x] : e \in NegErrs, x \in {0} \cup OpenErrnos}
StateEnvs(states) == SeqsOf(StateAnswers, Len(states))

\* Mutation of KeepError: a later error replaces an earlier one.
KeepLastError(r, k) == k

\* "if (r >= 0) r = k;" in both loops.
KeepError(r, k) == IF r >= 0 THEN k ELSE r

\* Mutation of Accepted: the loop does not stop at an accepted token.
AcceptedNever(k) == FALSE

\* "if (k >= 0) return 0;" in both loops.
Accepted(k) == k >= 0

\* One pass of STRV_FOREACH(mode, modes) in write_mode, from token i on.
RECURSIVE write_mode_from(_, _, _, _, _)
write_mode_from(modes, ans, i, r, writes) ==
    IF i > Len(modes) THEN [r |-> r, writes |-> writes]
    ELSE LET k == ans[i]
             w == writes \o <<WriteEv(PowerDisk, Str(modes[i]), k)>>
         IN  IF Accepted(k) THEN [r |-> 0, writes |-> w]
             ELSE write_mode_from(modes, ans, i + 1, KeepError(r, k), w)

\* write_mode(modes): its result and the writes to /sys/power/disk.
write_mode(modes, ans) == write_mode_from(modes, ans, 1, 0, <<>>)

\* Mutation of Reopen: the handle is kept as it is.
ReopenSkipped(f, errno, fresh) == [f |-> f, events |-> <<>>]

\* After a rejected write in write_state: fclose(*f); *f = fopen(...).
\* Returns the new handle (NULL when fopen failed) and the events.
Reopen(f, errno, fresh) ==
    [f |-> IF errno = 0 THEN fresh ELSE NULL,
     events |-> <<Ev("fclose", PowerState, Str(""), f, 0),
                  Ev("fopen", PowerState, Str(""), IF errno = 0 THEN fresh ELSE NULL, -errno)>>]

\* One pass of STRV_FOREACH(state, states) in write_state, from token i on;
\* n counts the handles opened so far (the next handle is n + 1).
RECURSIVE write_state_from(_, _, _, _, _, _, _)
write_state_from(f, states, ans, i, r, n, events) ==
    IF i > Len(states) THEN [r |-> r, f |-> f, n |-> n, events |-> events]
    ELSE LET k == ans[i].k
             w == events \o <<Ev("write", PowerState, Str(states[i]), f, k)>>
         IN  IF Accepted(k) THEN [r |-> 0, f |-> f, n |-> n, events |-> w]
             ELSE LET re == Reopen(f, ans[i].reopen, n + 1)
                  IN  IF re.f = NULL
                      THEN [r |-> -ans[i].reopen, f |-> NULL, n |-> n, events |-> w \o re.events]
                      ELSE write_state_from(re.f, states, ans, i + 1, KeepError(r, k),
                                            n + 1, w \o re.events)

\* write_state(&f, states): its result, *f afterwards and the events.
write_state(f, states, ans, n) == write_state_from(f, states, ans, 1, 0, n, <<>>)

(***************************************************************************)
(* State.                                                                  *)
(***************************************************************************)
VARIABLES
    arg_verb,           \* the command given to the program
    arg_resume_offset,  \* the static arg_resume_offset
    run_modes,          \* run(): modes, from sleep_settings()
    run_states,         \* run(): states, from sleep_settings()
    sleep_config,       \* the SleepConfig lists execute_s2h reads
    pc,                 \* where run() is: "run", "execute", "s2h", "exit"
    exit_r,             \* the value run() returned
    spc,                \* where execute_s2h is
    tfd,                \* execute_s2h: the timer descriptor, -1 when none
    tfd_log,            \* what happened to the timer descriptor, in order
    revents,            \* execute_s2h: fds.revents after poll
    s_r,                \* execute_s2h: r
    calls,              \* execute_s2h: the execute() calls made, with results
    xpc,                \* where execute is
    modes,              \* execute: modes
    states,             \* execute: states
    f,                  \* execute: the handle on /sys/power/state, or NULL
    r,                  \* execute: r
    nopen,              \* handles on /sys/power/state opened by this call
    hooks,              \* the hook batch that is running: "none", "pre", "post"
    trace,              \* events of the current execute call, in order
    proc_cmdline,       \* the kernel command line, once it has been read
    env,                \* what the system answered to the current execute call
    prev                \* outcome of an earlier identical call (SpecPair)

vars == <<arg_verb, arg_resume_offset, run_modes, run_states, sleep_config, pc, exit_r,
          spc, tfd, tfd_log, revents, s_r, calls,
          xpc, modes, states, f, r, nopen, hooks, trace, proc_cmdline, env, prev>>

run_vars == <<arg_verb, run_modes, run_states, sleep_config, pc, exit_r>>
s2h_vars == <<spc, tfd, tfd_log, revents, s_r, calls>>
exec_vars == <<xpc, modes, states, f, r, nopen, hooks, trace, env>>

\* The other commands differ from these only in the lists sleep_settings() returns.
Verbs == {"hibernate", "suspend-then-hibernate"}

\* execute_directories() returns 0, or an error when a hook failed (EIO) or
\* the batch timed out (ETIME); execute() casts the value to void.
HookResults == {0, -5, -62}

POLLIN == 1

NoEnv == [open |-> {}, loc |-> {}, disk |-> {}, state |-> {}, pre |-> {}, post |-> {}]
NoPrev == [set |-> FALSE, r |-> 0, writes |-> <<>>, hooks_ok |-> TRUE]

\* The answer of the system to one step: a fresh one, or the recorded one
\* when the same call is being repeated.
Answers(field, S) == IF env[field] = {} THEN S ELSE env[field]

Init ==
    /\ arg_verb \in Verbs
    /\ arg_resume_offset = NoOffset
    /\ IF arg_verb = "suspend-then-hibernate"
       THEN /\ run_modes = <<>> /\ run_states = <<>>
            /\ sleep_config \in [suspend_modes : S2hModeLists, suspend_states : S2hStateLists,
                                 hibernate_modes : S2hModeLists, hibernate_states : S2hStateLists]
       ELSE /\ run_modes \in ModeLists /\ run_states \in StateLists
            /\ sleep_config = [suspend_modes |-> <<>>, suspend_states |-> <<>>,
                               hibernate_modes |-> <<>>, hibernate_states |-> <<>>]
    /\ pc = "run" /\ exit_r = 0
    /\ spc = "idle" /\ tfd = -1 /\ tfd_log = <<>> /\ revents = {} /\ s_r = 0 /\ calls = <<>>
    /\ xpc = "idle" /\ modes = <<>> /\ states = <<>> /\ f = NULL /\ r = 0 /\ nopen = 0
    /\ hooks = "none" /\ trace = <<>> /\ proc_cmdline = {} /\ env = NoEnv
    /\ prev = NoPrev

(***************************************************************************)
(* execute(modes, states)                                                  *)
(***************************************************************************)
\* A call of execute: its locals at entry.
Call(m, s) ==
    /\ xpc' = "open" /\ modes' = m /\ states' = s
    /\ f' = NULL /\ r' = 0 /\ nopen' = 0 /\ hooks' = "none" /\ trace' = <<>>

\* "return rv" in execute: _cleanup_fclose_ closes f when it is open.
Return(rv, events) ==
    /\ xpc' = "ret" /\ r' = rv /\ f' = NULL
    /\ trace' = trace \o events \o
                (IF f # NULL THEN <<Ev("fclose", PowerState, Str(""), f, 0)>> ELSE <<>>)

\* A callee of execute returned rv.
RetEv(fn, rv) == Ev("ret", fn, Str(""), NULL, rv)

\* Mutation of Failed: the result is not looked at.
FailedNever(rv) == FALSE

\* Mutation of Failed: every result is taken for an error.
FailedAlways(rv) == TRUE

\* "if (r < 0) return ..." after write_hibernate_location_info and write_mode.
Failed(rv) == rv < 0

\* Mutation of AfterOpen: the hibernation mode is configured for any list.
AfterOpenAlwaysLocation(m) == "location"

\* Where execute goes after a step.
AfterOpen(m) == IF m # <<>> THEN "location" ELSE "pre"

\* Mutation of AfterWriteState: execute returns without the post hooks.
AfterWriteStateNoPost == "ret"

\* arguments[1] = "post" and the second execute_directories follow write_state.
AfterWriteState == "post"

\* Mutation of AfterPreBegin: execute does not wait for the hooks to end.
AfterPreBeginNoWait == "state"

\* execute_directories() returns only when the batch is over.
AfterPreBegin == "pre_wait"

\* Mutation of HooksVoid: an error of the hook batch becomes the result.
HooksResultKept(rv, k) == IF k < 0 THEN k ELSE rv

\* "(void) execute_directories(...)": r after a hook batch returned k.
HooksVoid(rv, k) == rv

\* f = fopen("/sys/power/state", "we"); if (!f) return -errno;
ExecuteOpen ==
    /\ xpc = "open"
    /\ \E errno \in Answers("open", {0} \cup OpenErrnos) :
         /\ env' = [env EXCEPT !.open = {errno}]
         /\ nopen' = IF errno = 0 THEN 1 ELSE 0
         /\ IF errno # 0
            THEN /\ xpc' = "ret" /\ r' = -errno /\ f' = NULL
                 /\ trace' = trace \o <<Ev("fopen", PowerState, Str(""), NULL, -errno)>>
            ELSE /\ xpc' = AfterOpen(modes)
                 /\ f' = 1 /\ r' = r
                 /\ trace' = trace \o <<Ev("fopen", PowerState, Str(""), 1, 0)>>
    /\ UNCHANGED <<modes, states, hooks, proc_cmdline, arg_resume_offset, prev>>
    /\ UNCHANGED run_vars /\ UNCHANGED s2h_vars

\* r = write_hibernate_location_info(); if (r < 0) return r;
ExecuteLocation ==
    /\ xpc = "location"
    /\ \E e \in Answers("loc", LocEnvs) :
       \E c \in (IF proc_cmdline = {} THEN ProcCmdlines ELSE proc_cmdline) :
         LET res == write_hibernate_location_info(e, c, arg_resume_offset)
             read == e.find = 0 /\ e.type = "file" /\ e.access = 0 /\ e.open = 0
                     /\ e.fstat = 0 /\ e.fiemap = 0 /\ e.extents # 0 /\ e.cmdline = 0
         IN  /\ env' = [env EXCEPT !.loc = {e}]
             /\ proc_cmdline' = IF read THEN {c} ELSE proc_cmdline
             /\ arg_resume_offset' = res.arg
             /\ IF Failed(res.r)
                THEN /\ Return(res.r, res.events \o <<RetEv("write_hibernate_location_info", res.r)>>)
                     /\ UNCHANGED <<nopen>>
                ELSE /\ xpc' = "mode" /\ r' = res.r
                     /\ trace' = trace \o res.events
                                  \o <<RetEv("write_hibernate_location_info", res.r)>>
                     /\ UNCHANGED <<f, nopen>>
    /\ UNCHANGED <<modes, states, hooks, prev>>
    /\ UNCHANGED run_vars /\ UNCHANGED s2h_vars

\* r = write_mode(modes); if (r < 0) return r;
ExecuteMode ==
    /\ xpc = "mode"
    /\ \E ans \in Answers("disk", DiskEnvs(modes)) :
         LET res == write_mode(modes, ans)
         IN  /\ env' = [env EXCEPT !.disk = {ans}]
             /\ IF Failed(res.r)
                THEN Return(res.r, res.writes \o <<RetEv("write_mode", res.r)>>)
                ELSE /\ xpc' = "pre" /\ r' = res.r
                     /\ trace' = trace \o res.writes \o <<RetEv("write_mode", res.r)>>
                     /\ UNCHANGED f
    /\ UNCHANGED <<modes, states, nopen, hooks, proc_cmdline, arg_resume_offset, prev>>
    /\ UNCHANGED run_vars /\ UNCHANGED s2h_vars

\* execute_directories(dirs, ..., "pre", ...) is entered: the hooks are started.
ExecutePreHooks ==
    /\ xpc = "pre"
    /\ xpc' = AfterPreBegin /\ hooks' = "pre"
    /\ trace' = trace \o <<Ev("hooks_begin", "pre", Str(""), NULL, 0)>>
    /\ UNCHANGED <<modes, states, f, r, nopen, env, proc_cmdline, arg_resume_offset, prev>>
    /\ UNCHANGED run_vars /\ UNCHANGED s2h_vars

\* (void) execute_directories(...) returns: every hook ended or was abandoned.
ExecutePreHooksDone ==
    /\ xpc = "pre_wait"
    /\ \E k \in HookResults :
         /\ env' = [env EXCEPT !.pre = {k}]
         /\ r' = HooksVoid(r, k)
         /\ trace' = trace \o <<Ev("hooks_end", "pre", Str(""), NULL, 0)>>
    /\ xpc' = "state" /\ hooks' = "none"
    /\ UNCHANGED <<modes, states, f, nopen, proc_cmdline, arg_resume_offset, prev>>
    /\ UNCHANGED run_vars /\ UNCHANGED s2h_vars

\* r = write_state(&f, states);
ExecuteWriteState ==
    /\ xpc = "state"
    /\ \E ans \in Answers("state", StateEnvs(states)) :
         LET res == write_state(f, states, ans, nopen)
         IN  /\ env' = [env EXCEPT !.state = {ans}]
             /\ r' = res.r /\ f' = res.f /\ nopen' = res.n
             /\ trace' = trace \o res.events \o <<RetEv("write_state", res.r)>>
    /\ xpc' = AfterWriteState
    /\ UNCHANGED <<modes, states, hooks, proc_cmdline, arg_resume_offset, prev>>
    /\ UNCHANGED run_vars /\ UNCHANGED s2h_vars

\* arguments[1] = "post"; execute_directories(...) is entered.
ExecutePostHooks ==
    /\ xpc = "post"
    /\ xpc' = "post_wait" /\ hooks' = "post"
    /\ trace' = trace \o <<Ev("hooks_begin", "post", Str(""), NULL, 0)>>
    /\ UNCHANGED <<modes, states, f, r, nopen, env, proc_cmdline, arg_resume_offset, prev>>
    /\ UNCHANGED run_vars /\ UNCHANGED s2h_vars

\* (void) execute_directories(...) returns; return r;
ExecutePostHooksDone ==
    /\ xpc = "post_wait"
    /\ \E k \in HookResults :
         /\ env' = [env EXCEPT !.post = {k}]
         /\ Return(HooksVoid(r, k), <<Ev("hooks_end", "post", Str(""), NULL, 0)>>)
    /\ hooks' = "none"
    /\ UNCHANGED <<modes, states, nopen, proc_cmdline, arg_resume_offset, prev>>
    /\ UNCHANGED run_vars /\ UNCHANGED s2h_vars

(***************************************************************************)
(* execute_s2h(sleep_config)                                               *)
(***************************************************************************)
TimerFd == 3

\* "return rv" in execute_s2h: _cleanup_close_ closes tfd when it is >= 0.
S2hReturn(rv, fd, log) ==
    /\ spc' = "return" /\ s_r' = rv /\ tfd' = -1
    /\ tfd_log' = IF fd >= 0 THEN log \o <<"close">> ELSE log

\* The caller takes the result of the execute call that returned; the call
\* is recorded with the lists it was given and the hook batches it started.
TakeResult(kind) ==
    /\ calls' = Append(calls, [kind |-> kind, modes |-> modes, states |-> states, r |-> r,
                                hooks |-> HookPhases(trace)])
    /\ xpc' = "idle" /\ trace' = <<>> /\ env' = NoEnv
    /\ UNCHANGED <<modes, states, f, r, nopen, hooks>>

\* Mutation of FLAGS_SET: the test always passes.
FLAGS_SET_always(v, flag) == TRUE

\* FLAGS_SET(fds.revents, POLLIN), revents being the set of the bits set.
FLAGS_SET(v, flag) == flag \in v

\* Mutation of AfterHibernate: a failed hibernation is not followed by a suspend.
AfterHibernateNoFallback(rv) == "return"

\* After the hibernate call: "if (r < 0) { ... suspend again ... } return 0;"
AfterHibernate(rv) == IF rv < 0 THEN "fallback" ELSE "return"

\* Mutation of FallbackResult: the result of the second suspend is dropped.
FallbackResultDropped(rv) == 0

\* After the second suspend: "if (r < 0) return r;" ... "return 0;"
FallbackResult(rv) == IF rv < 0 THEN rv ELSE 0

\* Mutation of TimerFailed: the result of the timer call is not looked at.
TimerFailedIgnored(rv) == FALSE

\* "if (tfd < 0) return ..." and "if (r < 0) return ..." after the timer calls.
TimerFailed(rv) == rv < 0

\* Mutation of AfterSuspend: the poll follows a failed suspend too.
AfterSuspendAlwaysPoll(rv) == "poll"

\* After the first suspend: "if (r < 0) return r;"
AfterSuspend(rv) == IF rv < 0 THEN "return" ELSE "poll"

\* Mutation of safe_close: the variable keeps the closed descriptor.
safe_close_keeps(fd) == fd

\* tfd = safe_close(tfd): the descriptor is closed and the variable becomes -1.
safe_close(fd) == -1

\* tfd = timerfd_create(CLOCK_BOOTTIME_ALARM, ...); if (tfd < 0) return -errno;
S2hTimerCreate ==
    /\ pc = "s2h" /\ spc = "create"
    /\ \E errno \in {0} \cup Errnos :
         LET fd == IF errno # 0 THEN -1 ELSE TimerFd
             log == tfd_log \o <<IF errno # 0 THEN "create_failed" ELSE "create">>
         IN  IF TimerFailed(fd)
             THEN S2hReturn(-errno, fd, log)
             ELSE /\ spc' = "settime" /\ tfd' = fd /\ tfd_log' = log
                  /\ s_r' = s_r
    /\ UNCHANGED <<revents, calls, proc_cmdline, arg_resume_offset, prev>>
    /\ UNCHANGED run_vars /\ UNCHANGED exec_vars

\* r = timerfd_settime(tfd, 0, &ts, NULL); if (r < 0) return -errno;
S2hTimerSet ==
    /\ pc = "s2h" /\ spc = "settime"
    /\ \E errno \in {0} \cup Errnos :
         LET rv == IF errno # 0 THEN -1 ELSE 0
             log == tfd_log \o <<IF errno # 0 THEN "settime_failed" ELSE "settime">>
         IN  IF TimerFailed(rv)
             THEN S2hReturn(-errno, tfd, log)
             ELSE /\ spc' = "suspend" /\ tfd_log' = log
                  /\ UNCHANGED <<tfd, s_r>>
    /\ UNCHANGED <<revents, calls, proc_cmdline, arg_resume_offset, prev>>
    /\ UNCHANGED run_vars /\ UNCHANGED exec_vars

\* r = execute(sleep_config->suspend_modes, sleep_config->suspend_states);
S2hSuspend ==
    /\ pc = "s2h" /\ spc = "suspend" /\ xpc = "idle"
    /\ Call(sleep_config.suspend_modes, sleep_config.suspend_states)
    /\ spc' = "suspend_wait" /\ env' = NoEnv
    /\ UNCHANGED <<tfd, tfd_log, revents, s_r, calls, proc_cmdline, arg_resume_offset, prev>>
    /\ UNCHANGED run_vars

\* if (r < 0) return r;
S2hSuspendRet ==
    /\ pc = "s2h" /\ spc = "suspend_wait" /\ xpc = "ret"
    /\ TakeResult("suspend")
    /\ IF AfterSuspend(r) = "return"
       THEN S2hReturn(r, tfd, tfd_log)
       ELSE /\ spc' = "poll" /\ s_r' = r /\ UNCHANGED <<tfd, tfd_log>>
    /\ UNCHANGED <<revents, proc_cmdline, arg_resume_offset, prev>>
    /\ UNCHANGED run_vars

\* r = poll(&fds, 1, 0); if (r < 0) return -errno; tfd = safe_close(tfd);
\* if (!FLAGS_SET(fds.revents, POLLIN)) return 0;
S2hPoll ==
    /\ pc = "s2h" /\ spc = "poll"
    /\ \E errno \in {0} \cup Errnos, ev \in {{}, {POLLIN}} :
         IF errno # 0
         THEN /\ ev = {} /\ revents' = {}
              /\ S2hReturn(-errno, tfd, tfd_log \o <<"poll_failed">>)
         ELSE /\ revents' = ev
              /\ IF ~FLAGS_SET(ev, POLLIN)
                 THEN S2hReturn(0, safe_close(tfd), tfd_log \o <<"poll", "close">>)
                 ELSE /\ spc' = "hibernate" /\ s_r' = 0 /\ tfd' = safe_close(tfd)
                      /\ tfd_log' = tfd_log \o <<"poll", "close">>
    /\ UNCHANGED <<calls, proc_cmdline, arg_resume_offset, prev>>
    /\ UNCHANGED run_vars /\ UNCHANGED exec_vars

\* r = execute(sleep_config->hibernate_modes, sleep_config->hibernate_states);
S2hHibernate ==
    /\ pc = "s2h" /\ spc = "hibernate" /\ xpc = "idle"
    /\ Call(sleep_config.hibernate_modes, sleep_config.hibernate_states)
    /\ spc' = "hibernate_wait" /\ env' = NoEnv
    /\ UNCHANGED <<tfd, tfd_log, revents, s_r, calls, proc_cmdline, arg_resume_offset, prev>>
    /\ UNCHANGED run_vars

\* if (r < 0) { try to suspend again } ... return 0;
S2hHibernateRet ==
    /\ pc = "s2h" /\ spc = "hibernate_wait" /\ xpc = "ret"
    /\ TakeResult("hibernate")
    /\ IF AfterHibernate(r) = "fallback"
       THEN /\ spc' = "fallback" /\ s_r' = r /\ UNCHANGED <<tfd, tfd_log>>
       ELSE S2hReturn(0, tfd, tfd_log)
    /\ UNCHANGED <<revents, proc_cmdline, arg_resume_offset, prev>>
    /\ UNCHANGED run_vars

\* r = execute(sleep_config->suspend_modes, sleep_config->suspend_states);
S2hFallback ==
    /\ pc = "s2h" /\ spc = "fallback" /\ xpc = "idle"
    /\ Call(sleep_config.suspend_modes, sleep_config.suspend_states)
    /\ spc' = "fallback_wait" /\ env' = NoEnv
    /\ UNCHANGED <<tfd, tfd_log, revents, s_r, calls, proc_cmdline, arg_resume_offset, prev>>
    /\ UNCHANGED run_vars

\* if (r < 0) return r; ... return 0;
S2hFallbackRet ==
    /\ pc = "s2h" /\ spc = "fallback_wait" /\ xpc = "ret"
    /\ TakeResult("suspend")
    /\ S2hReturn(FallbackResult(r), tfd, tfd_log)
    /\ UNCHANGED <<revents, proc_cmdline, arg_resume_offset, prev>>
    /\ UNCHANGED run_vars

(***************************************************************************)
(* run()                                                                   *)
(***************************************************************************)
\* if (streq(arg_verb, "suspend-then-hibernate")) return execute_s2h(sleep_config);
RunS2h ==
    /\ pc = "run" /\ arg_verb = "suspend-then-hibernate"
    /\ pc' = "s2h" /\ spc' = "create"
    /\ UNCHANGED <<arg_verb, run_modes, run_states, sleep_config, exit_r>>
    /\ UNCHANGED <<tfd, tfd_log, revents, s_r, calls, proc_cmdline, arg_resume_offset, prev>>
    /\ UNCHANGED exec_vars

\* else return execute(modes, states);
RunExecute ==
    /\ pc = "run" /\ arg_verb # "suspend-then-hibernate"
    /\ pc' = "execute" /\ Call(run_modes, run_states) /\ env' = NoEnv
    /\ UNCHANGED <<arg_verb, run_modes, run_states, sleep_config, exit_r>>
    /\ UNCHANGED <<proc_cmdline, arg_resume_offset, prev>>
    /\ UNCHANGED s2h_vars

\* run() returns what execute returned.
RunExecuteReturn ==
    /\ pc = "execute" /\ xpc = "ret"
    /\ exit_r' = r /\ pc' = "exit"
    /\ UNCHANGED <<arg_verb, run_modes, run_states, sleep_config>>
    /\ UNCHANGED <<proc_cmdline, arg_resume_offset, prev>>
    /\ UNCHANGED s2h_vars /\ UNCHANGED exec_vars

\* run() returns what execute_s2h returned.
RunS2hReturn ==
    /\ pc = "s2h" /\ spc = "return"
    /\ exit_r' = s_r /\ pc' = "exit"
    /\ UNCHANGED <<arg_verb, run_modes, run_states, sleep_config>>
    /\ UNCHANGED <<proc_cmdline, arg_resume_offset, prev>>
    /\ UNCHANGED s2h_vars /\ UNCHANGED exec_vars

\* The program is run once more with the same command and configuration, and
\* the system answers every call as it did the first time; only the hooks are
\* free to end differently.  The outcome of the first run is kept in prev.
RunAgain ==
    /\ pc = "exit" /\ arg_verb # "suspend-then-hibernate" /\ ~prev.set
    /\ prev' = [set |-> TRUE, r |-> exit_r, writes |-> Writes(trace),
                hooks_ok |-> (env.pre \cup env.post) \subseteq {0}]
    /\ pc' = "execute" /\ exit_r' = 0
    /\ Call(run_modes, run_states)
    /\ env' = [env EXCEPT !.pre = {}, !.post = {}]
    /\ arg_resume_offset' = NoOffset
    /\ UNCHANGED <<arg_verb, run_modes, run_states, sleep_config, proc_cmdline>>
    /\ UNCHANGED s2h_vars

Next ==
    \/ RunS2h \/ RunExecute \/ RunExecuteReturn \/ RunS2hReturn
    \/ ExecuteOpen \/ ExecuteLocation \/ ExecuteMode
    \/ ExecutePreHooks \/ ExecutePreHooksDone
    \/ ExecuteWriteState
    \/ ExecutePostHooks \/ ExecutePostHooksDone
    \/ S2hTimerCreate \/ S2hTimerSet \/ S2hSuspend \/ S2hSuspendRet \/ S2hPoll
    \/ S2hHibernate \/ S2hHibernateRet \/ S2hFallback \/ S2hFallbackRet

Spec == Init /\ [][Next]_vars

\* Two runs of execute against the same answers of the system.
InitPair == Init /\ arg_verb # "suspend-then-hibernate"

NextPair ==
    \/ RunExecute \/ RunExecuteReturn \/ RunAgain
    \/ ExecuteOpen \/ ExecuteLocation \/ ExecuteMode
    \/ ExecutePreHooks \/ ExecutePreHooksDone
    \/ ExecuteWriteState
    \/ ExecutePostHooks \/ ExecutePostHooksDone

SpecPair == InitPair /\ [][NextPair]_vars

(***************************************************************************)
(* write_hibernate_location_info for a swap file whose extent map and the  *)
(* kernel command line are known in advance: execute is entered with a     *)
(* non-empty mode list, every call up to proc_cmdline_parse succeeds, the  *)
(* first extent starts at P and the page size is S.                        *)
(***************************************************************************)
MaxPhys == 48

OffsetPhys == (0..MaxPhys) \cup PhysSet
OffsetPages == {4, 16} \cup PageSizes

\* Command lines without resume_offset, with a value, with an empty value,
\* without "=value", and with the key given twice.
OffsetCmdlines ==
    ProcCmdlines \cup
    { <<>>,
      <<CmdItem("quiet", FALSE, <<>>)>>,
      <<CmdItem("resume_offset", TRUE, <<>>)>>,
      <<CmdItem("resume_offset", TRUE, <<7>>), CmdItem("resume_offset", TRUE, <<4, 2>>)>>,
      <<CmdItem("resume_offset", TRUE, <<0, 9>>), CmdItem("resume_offset", FALSE, <<>>)>> }

InitOffset ==
    /\ arg_verb = "hibernate" /\ arg_resume_offset = NoOffset
    /\ run_modes = SubSeq(ModeTokens, 1, 1) /\ run_states = SubSeq(StateTokens, 4, 4)
    /\ sleep_config = [suspend_modes |-> <<>>, suspend_states |-> <<>>,
                       hibernate_modes |-> <<>>, hibernate_states |-> <<>>]
    /\ pc = "execute" /\ exit_r = 0
    /\ spc = "idle" /\ tfd = -1 /\ tfd_log = <<>> /\ revents = {} /\ s_r = 0 /\ calls = <<>>
    /\ xpc = "open" /\ modes = run_modes /\ states = run_states
    /\ f = NULL /\ r = 0 /\ nopen = 0 /\ hooks = "none" /\ trace = <<>>
    /\ proc_cmdline \in {{c} : c \in OffsetCmdlines}
    /\ env \in {[NoEnv EXCEPT !.loc = {LocAllOk("file", p, s)}] :
                  p \in OffsetPhys, s \in OffsetPages}
    /\ prev = NoPrev

NextOffset == ExecuteOpen \/ ExecuteLocation

SpecOffset == InitOffset /\ [][NextOffset]_vars

(***************************************************************************)
(* Properties.                                                             *)
(***************************************************************************)
\* The results recorded in s for the returns of fn.
RetOf(s, fn) == {s[i].res : i \in {j \in 1..Len(s) : s[j].op = "ret" /\ s[j].file = fn}}

\* The files written in s, in order, appear in the order `order`.
Rank(order, file) == CHOOSE i \in 1..Len(order) : order[i] = file
InOrder(order, s) ==
    LET w == Writes(s)
    IN  \A i, j \in 1..Len(w) : i < j => Rank(order, w[i].file) <= Rank(order, w[j].file)

FilesWritten(s) == {Writes(s)[i].file : i \in 1..Len(Writes(s))}

\* C1 as stated: in every run of execute with a non-empty mode list the
\* control files are written in the order resume, resume_offset, disk, state.
C1_ResumeBeforeOffset ==
    modes # <<>> => InOrder(<<PowerResume, PowerResumeOffset, PowerDisk, PowerState>>, trace)

\* C1, amended: in every run of execute with a non-empty mode list the
\* control files are written in the order resume_offset, resume, disk, state:
\* no write to an earlier file of this order follows a write to a later one.
C1_OffsetBeforeResume ==
    modes # <<>> => InOrder(<<PowerResumeOffset, PowerResume, PowerDisk, PowerState>>, trace)

\* A finished run of execute that wrote all four control files.
C1_Witness ==
    /\ xpc = "ret" /\ modes # <<>>
    /\ FilesWritten(trace) = {PowerResumeOffset, PowerResume, PowerDisk, PowerState}

\* Some step of write_hibernate_location_info failed, by what the system answered.
LocStepFailed(e) ==
    \/ e.find < 0
    \/ e.type = "partition" /\ e.w_resume < 0
    \/ e.type \notin {"partition", "file"}
    \/ /\ e.type = "file"
       /\ \/ e.access \notin {0, ENOENT}
          \/ /\ e.access = 0
             /\ \/ e.open # 0 \/ e.fstat # 0 \/ e.fiemap < 0 \/ e.extents = 0
                \/ e.cmdline < 0 \/ e.w_offset < 0 \/ e.w_resume < 0

Polled == \E i \in 1..Len(tfd_log) : tfd_log[i] = "poll"
PollFailed == \E i \in 1..Len(tfd_log) : tfd_log[i] = "poll_failed"
\* The poll reported the timer as expired.
Fired == POLLIN \in revents

\* execute_s2h has returned and its first suspend had succeeded.
SleptOnce == spc = "return" /\ Len(calls) >= 1 /\ calls[1].r >= 0

IsSuspendCall(c) ==
    /\ c.kind = "suspend"
    /\ c.modes = sleep_config.suspend_modes /\ c.states = sleep_config.suspend_states
IsHibernateCall(c) ==
    /\ c.kind = "hibernate"
    /\ c.modes = sleep_config.hibernate_modes /\ c.states = sleep_config.hibernate_states

\* C3: when the first suspend succeeded and the poll reported the timer fired,
\* execute is called with the hibernate lists; when that call fails exactly one
\* more call follows, with the suspend lists, and execute_s2h returns success
\* if it succeeded and its error if it failed.
C3_OneFallbackSuspend ==
    (SleptOnce /\ Polled /\ Fired) =>
        /\ Len(calls) >= 2 /\ IsSuspendCall(calls[1]) /\ IsHibernateCall(calls[2])
        /\ calls[2].r < 0 =>
              /\ Len(calls) = 3 /\ IsSuspendCall(calls[3])
              /\ calls[3].r >= 0 => s_r = 0
              /\ calls[3].r < 0 => s_r < 0 /\ s_r = calls[3].r

\* execute_s2h returned after hibernation failed and the second suspend failed.
C3_Witness ==
    /\ SleptOnce /\ Fired /\ Len(calls) = 3
    /\ calls[2].r < 0 /\ calls[3].r < 0 /\ s_r < 0

\* C4 as stated: when the first suspend succeeded and the poll does not report
\* POLLIN, no further call of execute is made and execute_s2h returns success.
C4_NotFiredSuccess ==
    (SleptOnce /\ ~Fired) => Len(calls) = 1 /\ s_r = 0

\* C4, amended: when the first suspend succeeded and the poll returns without
\* an error and without POLLIN, no further call of execute is made and
\* execute_s2h returns success; when the poll fails no further call is made
\* either and execute_s2h returns the error of the poll.
C4_PolledNotFired ==
    /\ (SleptOnce /\ Polled /\ ~Fired) => Len(calls) = 1 /\ s_r = 0
    /\ (SleptOnce /\ PollFailed) => Len(calls) = 1 /\ s_r < 0

\* execute_s2h returned success after one suspend: the timer had not fired.
C4_Witness ==
    SleptOnce /\ Polled /\ ~Fired /\ Len(calls) = 1 /\ s_r = 0

BothFailed == Len(calls) = 3 /\ calls[2].r < 0 /\ calls[3].r < 0

\* C5 as stated: after a first successful suspend execute_s2h returns an error
\* only when the hibernate call and the second suspend both failed.
C5_OnlyBothFailed == SleptOnce => (IF BothFailed THEN s_r < 0 ELSE s_r = 0)

\* C5, amended: after a first successful suspend execute_s2h returns an error
\* exactly when the poll of the timer failed or the hibernate call and the
\* second suspend both failed; on every other path it returns success.
C5_PollOrBothFailed ==
    SleptOnce => (IF PollFailed \/ BothFailed THEN s_r < 0 ELSE s_r = 0)

\* execute_s2h returned success after hibernation failed and the second suspend succeeded.
C5_Witness ==
    SleptOnce /\ Len(calls) = 3 /\ calls[2].r < 0 /\ calls[3].r >= 0 /\ s_r = 0

\* write_mode / write_state has returned in the current call of execute.
ModeReturned == RetOf(trace, "write_mode") # {}
StateReturned == RetOf(trace, "write_state") # {}

NoneAccepted(k) == k # <<>> /\ \A i \in 1..Len(k) : k[i] < 0
\* The results of the writes in a list of answers about /sys/power/state.
StateK(ans) == [i \in 1..Len(ans) |-> ans[i].k]
\* Every fopen that follows one of the first n rejected writes succeeds.
ReopensOk(ans, n) == \A i \in 1..n : i <= Len(ans) => ans[i].reopen = 0

FirstAcceptable(k) ==
    IF \E i \in 1..Len(k) : k[i] >= 0
    THEN CHOOSE i \in 1..Len(k) : k[i] >= 0 /\ \A j \in 1..(i - 1) : k[j] < 0
    ELSE 0

\* The writes w are the first tokens of the list, in list order.
InListOrder(w, tokens) ==
    /\ Len(w) <= Len(tokens)
    /\ \A i \in 1..Len(w) : w[i].val = Str(tokens[i])

\* The writes w stop at the first acceptable token p, which succeeded.
StopsAtFirst(w, p, ret) == Len(w) = p /\ w[p].res >= 0 /\ ret = {0}

\* C7 as stated: write_mode and write_state write the tokens in list order and
\* return success at the first acceptable token, having made as many writes as
\* its position.
C7_FirstAcceptable ==
    /\ \A ans \in env.disk : ModeReturned =>
          /\ InListOrder(WritesTo(trace, PowerDisk), modes)
          /\ FirstAcceptable(ans) # 0 =>
                StopsAtFirst(WritesTo(trace, PowerDisk), FirstAcceptable(ans),
                             RetOf(trace, "write_mode"))
    /\ \A ans \in env.state : StateReturned =>
          /\ InListOrder(WritesTo(trace, PowerState), states)
          /\ FirstAcceptable(StateK(ans)) # 0 =>
                StopsAtFirst(WritesTo(trace, PowerState), FirstAcceptable(StateK(ans)),
                             RetOf(trace, "write_state"))

\* C7, amended: write_mode and write_state write the tokens in list order;
\* write_mode returns success at the first acceptable token, having made as
\* many writes as its position, and so does write_state when every reopen of
\* /sys/power/state before that token succeeds; when a reopen fails,
\* write_state returns that error and writes no further token.
C7_FirstAcceptableReopened ==
    /\ \A ans \in env.disk : ModeReturned =>
          /\ InListOrder(WritesTo(trace, PowerDisk), modes)
          /\ FirstAcceptable(ans) # 0 =>
                StopsAtFirst(WritesTo(trace, PowerDisk), FirstAcceptable(ans),
                             RetOf(trace, "write_mode"))
    /\ \A ans \in env.state : StateReturned =>
          LET p == FirstAcceptable(StateK(ans))
              w == WritesTo(trace, PowerState)
          IN  /\ InListOrder(w, states)
              /\ (p # 0 /\ ReopensOk(ans, p - 1)) =>
                    StopsAtFirst(w, p, RetOf(trace, "write_state"))
              /\ \A i \in 1..Len(ans) :
                    (ans[i].k < 0 /\ ans[i].reopen # 0 /\ ReopensOk(ans, i - 1)
                     /\ (p = 0 \/ i < p)) =>
                    Len(w) = i /\ RetOf(trace, "write_state") = {-ans[i].reopen}

\* write_state returned success at the second token, after the first was rejected.
C7_Witness ==
    /\ StateReturned /\ RetOf(trace, "write_state") = {0}
    /\ \E ans \in env.state : FirstAcceptable(StateK(ans)) = 2
    /\ Len(WritesTo(trace, PowerState)) = 2

\* The handle on /sys/power/state that is open before event i of s (NULL: none).
RECURSIVE OpenHandle(_, _)
OpenHandle(s, i) ==
    IF i <= 1 THEN NULL
    ELSE LET e == s[i - 1]
         IN  IF e.op = "fopen" THEN e.h
             ELSE IF e.op = "fclose" THEN NULL
             ELSE OpenHandle(s, i - 1)

\* C8: in write_state a rejected write to /sys/power/state is followed at once
\* by fclose of the handle and fopen of a new one; no token is written through
\* a handle on which an earlier write was rejected, every token is written
\* through the handle that is open; and when the fopen fails no further token
\* is written and write_state returns that error.
C8_ReopenAfterReject ==
    /\ \A i \in 1..Len(trace) :
          (trace[i].op = "write" /\ trace[i].file = PowerState) =>
             /\ trace[i].h # NULL /\ trace[i].h = OpenHandle(trace, i)
             /\ \A j \in 1..(i - 1) :
                   (trace[j].op = "write" /\ trace[j].file = PowerState /\ trace[j].res < 0)
                   => trace[j].h # trace[i].h
    /\ StateReturned =>
          \A j \in 1..Len(trace) :
             (trace[j].op = "write" /\ trace[j].file = PowerState /\ trace[j].res < 0) =>
                /\ j + 2 <= Len(trace)
                /\ trace[j + 1].op = "fclose" /\ trace[j + 1].h = trace[j].h
                /\ trace[j + 2].op = "fopen"
                /\ trace[j + 2].res < 0 =>
                      /\ RetOf(trace, "write_state") = {trace[j + 2].res}
                      /\ \A i \in (j + 3)..Len(trace) : trace[i].op # "write"

\* A token was written through a new handle after a rejected write.
C8_Witness ==
    /\ StateReturned
    /\ \E i, j \in 1..Len(trace) :
          /\ j < i /\ trace[j].op = "write" /\ trace[j].file = PowerState /\ trace[j].res < 0
          /\ trace[i].op = "write" /\ trace[i].file = PowerState /\ trace[i].h # trace[j].h

\* The positions of the events of s with the given op and file.
At(s, op, file) == {i \in 1..Len(s) : s[i].op = op /\ s[i].file = file}

\* C9: in every call of execute the pre-hook batch has begun and ended before
\* any write to /sys/power/state; the post-hook batch begins only after
\* write_state has returned; no hook batch is running when /sys/power/state is
\* written; and a call that ran the pre-hooks has, when it returns, run the
\* post-hook batch exactly once, whether write_state succeeded or failed.
C9_HooksAroundState ==
    /\ \A i \in At(trace, "write", PowerState) :
          /\ \E b \in At(trace, "hooks_begin", "pre"), e \in At(trace, "hooks_end", "pre") :
                b < e /\ e < i
          /\ \A b \in At(trace, "hooks_begin", "pre") \cup At(trace, "hooks_begin", "post") :
                b < i => \E e \in At(trace, "hooks_end", trace[b].file) : b < e /\ e < i
    /\ \A b \in At(trace, "hooks_begin", "post") :
          /\ \E j \in At(trace, "ret", "write_state") : j < b
          /\ \A i \in At(trace, "write", PowerState) : i < b
    /\ xpc = "state" => hooks = "none"
    /\ (xpc = "ret" /\ At(trace, "hooks_begin", "pre") # {}) =>
          /\ Cardinality(At(trace, "hooks_begin", "pre")) = 1
          /\ Cardinality(At(trace, "hooks_end", "pre")) = 1
          /\ Cardinality(At(trace, "hooks_begin", "post")) = 1
          /\ Cardinality(At(trace, "hooks_end", "post")) = 1
          /\ StateReturned

\* execute returned an error of write_state after both hook batches ran.
C9_Witness ==
    /\ xpc = "ret" /\ r < 0 /\ RetOf(trace, "write_state") = {r}
    /\ At(trace, "write", PowerState) # {}
    /\ At(trace, "hooks_end", "pre") # {} /\ At(trace, "hooks_end", "post") # {}

\* C10: execute returns the result of write_state whatever the hook batches
\* returned; and a second run against the same answers of the system, in
\* which the hooks are free to end differently, makes the same control-file
\* writes and returns the same result as the first.
C10_HooksDoNotMatter ==
    /\ (xpc = "ret" /\ StateReturned) => RetOf(trace, "write_state") = {r}
    /\ (prev.set /\ xpc = "ret") => r = prev.r /\ Writes(trace) = prev.writes

\* Two finished runs that slept: no hook batch failed in the first, both
\* batches failed in the second.
C10_Witness ==
    /\ prev.set /\ xpc = "ret" /\ StateReturned /\ At(trace, "write", PowerState) # {}
    /\ prev.hooks_ok /\ 0 \notin env.pre /\ 0 \notin env.post

\* What the timer descriptor went through in execute_s2h.
InLog(what) == \E i \in 1..Len(tfd_log) : tfd_log[i] = what
TimerCreated == InLog("create")
TimerCreateFailed == InLog("create_failed")
TimerSetFailed == InLog("settime_failed")

\* C11: when timerfd_create or timerfd_settime fails, execute_s2h returns at
\* once with a negative value and execute is never called: /sys/power/state
\* is not opened, no control file is written and no hook batch is started.
C11_TimerFailureNoSleep ==
    (TimerCreateFailed \/ TimerSetFailed) =>
        /\ spc = "return" /\ s_r < 0
        /\ calls = <<>> /\ xpc = "idle"
        /\ trace = <<>> /\ nopen = 0 /\ f = NULL /\ hooks = "none"

\* execute_s2h returned because the timer could not be armed.
C11_Witness ==
    spc = "return" /\ TimerCreated /\ TimerSetFailed /\ s_r < 0 /\ calls = <<>>

\* C12: when the first call of execute (with the suspend lists) fails,
\* execute_s2h returns exactly its result: the timer is not polled and no
\* other call of execute is made, one call in all.
C12_FirstSuspendFailure ==
    (Len(calls) >= 1 /\ calls[1].r < 0) =>
        /\ spc = "return" /\ s_r = calls[1].r
        /\ Len(calls) = 1 /\ IsSuspendCall(calls[1]) /\ xpc = "idle"
        /\ ~InLog("poll") /\ ~InLog("poll_failed")

\* execute_s2h returned the error of its first suspend.
C12_Witness ==
    /\ spc = "return" /\ Len(calls) = 1 /\ calls[1].r < 0 /\ s_r = calls[1].r
    /\ InLog("settime")

\* The calls that are given the timer descriptor.
TimerUses == {"settime", "settime_failed", "poll", "poll_failed"}

\* C13: the timer descriptor is closed at most once and nothing uses it after
\* it was closed; it is used only after it was created; and when execute_s2h
\* returns after having created it, it has been closed exactly once and tfd
\* holds no descriptor, whichever way execute_s2h returned.
C13_TimerReleased ==
    /\ \A i, j \in 1..Len(tfd_log) :
          (i < j /\ tfd_log[i] = "close") => tfd_log[j] \notin TimerUses \cup {"close"}
    /\ \A j \in 1..Len(tfd_log) :
          tfd_log[j] \in TimerUses \cup {"close"} => \E i \in 1..(j - 1) : tfd_log[i] = "create"
    /\ (tfd >= 0) = (TimerCreated /\ ~InLog("close"))
    /\ spc = "return" => (tfd = -1 /\ (TimerCreated = InLog("close")))

\* execute_s2h returned after the fallback suspend failed: the descriptor
\* was closed before the hibernate call and not again at the return.
C13_Witness ==
    /\ spc = "return" /\ Len(calls) = 3 /\ calls[3].r < 0 /\ s_r < 0
    /\ TimerCreated /\ tfd_log[Len(tfd_log)] = "close" /\ tfd = -1

\* write_hibernate_location_info has returned in the current call of execute.
LocReturned == RetOf(trace, "write_hibernate_location_info") # {}

\* The events of s that precede the return of fn.
Before(s, fn) ==
    SubSeq(s, 1, (CHOOSE i \in 1..Len(s) : s[i].op = "ret" /\ s[i].file = fn) - 1)

Ops(s) == {s[i].op : i \in 1..Len(s)}

\* The calls by which write_hibernate_location_info examines a swap file.
FileProbes == {"access", "open", "fstat", "read_fiemap", "proc_cmdline_parse"}

\* C14: when the hibernation location is a partition,
\* write_hibernate_location_info makes exactly one control-file write, of the
\* device path to /sys/power/resume, and none to /sys/power/resume_offset; it
\* makes none of the calls that examine a swap file; and it returns the result
\* of that write.
C14_PartitionOneWrite ==
    \A e \in env.loc : (LocReturned /\ e.find >= 0 /\ e.type = "partition") =>
        LET ev == Before(trace, "write_hibernate_location_info")
        IN  /\ Writes(ev) = <<WriteEv(PowerResume, Str(e.device), e.w_resume)>>
            /\ WritesTo(trace, PowerResumeOffset) = <<>>
            /\ Ops(trace) \cap FileProbes = {}
            /\ RetOf(trace, "write_hibernate_location_info") = {e.w_resume}

\* execute returned the error of the write of the partition to /sys/power/resume.
C14_Witness ==
    /\ xpc = "ret" /\ LocReturned /\ r < 0
    /\ \E e \in env.loc : e.find >= 0 /\ e.type = "partition" /\ e.w_resume = r
    /\ Len(WritesTo(trace, PowerResume)) = 1

\* C15: when the location is a file and access() on /sys/power/resume_offset
\* fails, nothing is written to /sys/power/resume_offset; with ENOENT
\* write_hibernate_location_info returns 0, with any other errno it returns
\* that error, which execute returns in turn.
C15_OffsetControlAbsent ==
    \A e \in env.loc : (LocReturned /\ e.find >= 0 /\ e.type = "file" /\ e.access # 0) =>
        /\ WritesTo(trace, PowerResumeOffset) = <<>>
        /\ IF e.access = ENOENT
           THEN RetOf(trace, "write_hibernate_location_info") = {0}
           ELSE /\ RetOf(trace, "write_hibernate_location_info") = {-e.access}
                /\ xpc = "ret" /\ r = -e.access /\ r < 0

\* write_hibernate_location_info returned 0 for a file on a kernel without
\* /sys/power/resume_offset.
C15_Witness ==
    /\ LocReturned /\ RetOf(trace, "write_hibernate_location_info") = {0}
    /\ \E e \in env.loc : e.find >= 0 /\ e.type = "file" /\ e.access = ENOENT
    /\ "access" \in Ops(trace)

\* C16: a call of execute with an empty mode list calls neither
\* write_hibernate_location_info nor write_mode: no call of either is begun or
\* returns, and the call of execute writes no control file but /sys/power/state.
C16_EmptyModesOnlyState ==
    modes = <<>> =>
        /\ xpc \notin {"location", "mode"}
        /\ ~LocReturned /\ ~ModeReturned
        /\ Ops(trace) \cap (FileProbes \cup {"find_hibernate_location"}) = {}
        /\ FilesWritten(trace) \subseteq {PowerState}
        /\ env.loc = {} /\ env.disk = {}

\* execute returned after a call with no modes in which a state was written.
C16_Witness ==
    /\ pc # "run" /\ xpc = "ret" /\ modes = <<>> /\ states # <<>> /\ r = 0
    /\ FilesWritten(trace) = {PowerState}

\* The number a string of decimal digits denotes.
RECURSIVE Value(_)
Value(d) == IF d = <<>> THEN 0 ELSE Value(SubSeq(d, 1, Len(d) - 1)) * 10 + d[Len(d)]

\* A number as "%" PRIu64 prints it: decimal digits, no leading zero.
Canonical(d) ==
    /\ Len(d) >= 1 /\ \A i \in 1..Len(d) : d[i] \in 0..9
    /\ Len(d) > 1 => d[1] # 0

\* The items of a command line that give resume_offset a value.
Overrides(items) ==
    {i \in 1..Len(items) : items[i].key = "resume_offset" /\ items[i].has_value}
LastOverride(items) ==
    items[CHOOSE i \in Overrides(items) : \A j \in Overrides(items) : j <= i].value

\* Every call of write_hibernate_location_info up to proc_cmdline_parse
\* succeeded for a swap file with a non-empty extent map.
FileLocationKnown(e) ==
    /\ e.find >= 0 /\ e.type = "file" /\ e.access = 0 /\ e.open = 0 /\ e.fstat = 0
    /\ e.fiemap >= 0 /\ e.extents # 0 /\ e.cmdline >= 0

\* C17: for a swap file with /sys/power/resume_offset present and a non-empty
\* extent map, exactly one value is written to /sys/power/resume_offset: the
\* string the kernel command line gives resume_offset (the last one, when
\* several are given), unchanged and whatever the extent map says; and with
\* no such string the decimal form of the quotient q of the physical offset P
\* of the first extent by the page size S, q * S <= P < (q + 1) * S.
C17_OffsetValue ==
    \A e \in env.loc, c \in proc_cmdline : (LocReturned /\ FileLocationKnown(e)) =>
        LET w == WritesTo(trace, PowerResumeOffset)
        IN  /\ Len(w) = 1
            /\ IF Overrides(c) # {}
               THEN w[1].val = Digits(LastOverride(c))
               ELSE LET d == w[1].val.d
                    IN  /\ w[1].val.s = "" /\ Canonical(d)
                        /\ Value(d) * e.page <= e.phys
                        /\ e.phys < (Value(d) + 1) * e.page

\* The offset written for a first extent that does not start on a page
\* boundary, with no resume_offset on the command line: the quotient, two
\* digits long, rounded down.
C17_Witness ==
    /\ LocReturned
    /\ \E e \in env.loc, c \in proc_cmdline :
          /\ FileLocationKnown(e) /\ Overrides(c) = {}
          /\ e.phys % e.page # 0 /\ e.phys \div e.page >= 10
          /\ Len(WritesTo(trace, PowerResumeOffset)) = 1
          /\ WritesTo(trace, PowerResumeOffset)[1].val = Digits(ToBase(e.phys \div e.page, 10))

\* C18: for a swap file, /sys/power/resume is written only after a write to
\* /sys/power/resume_offset succeeded earlier in the same call, each of the
\* two at most once; and when the write to /sys/power/resume_offset fails,
\* /sys/power/resume is not written and write_hibernate_location_info, and
\* execute after it, return the error of that write.
C18_OffsetThenResume ==
    \A e \in env.loc : (e.find >= 0 /\ e.type = "file") =>
        LET wo == At(trace, "write", PowerResumeOffset)
            wr == At(trace, "write", PowerResume)
        IN  /\ Cardinality(wo) <= 1 /\ Cardinality(wr) <= 1
            /\ \A i \in wr : \E j \in wo : j < i /\ trace[j].res >= 0
            /\ \A j \in wo : trace[j].res < 0 =>
                  /\ wr = {}
                  /\ RetOf(trace, "write_hibernate_location_info") = {trace[j].res}
                  /\ xpc = "ret" /\ r = trace[j].res

\* write_hibernate_location_info returned after the write to
\* /sys/power/resume_offset failed.
C18_Witness ==
    /\ LocReturned /\ At(trace, "write", PowerResume) = {}
    /\ \E e \in env.loc : e.type = "file" /\ e.w_offset < 0
    /\ \E j \in At(trace, "write", PowerResumeOffset) : trace[j].res < 0

\* The hook batches started since the program began: those of the finished
\* calls of execute, then those of the call in progress.
RECURSIVE PhasesOf(_)
PhasesOf(cs) == IF cs = <<>> THEN <<>> ELSE Head(cs).hooks \o PhasesOf(Tail(cs))
RunPhases == PhasesOf(calls) \o HookPhases(trace)

\* pre, post, pre, post, ...
Alternates(p) == \A i \in 1..Len(p) : p[i] = (IF i % 2 = 1 THEN "pre" ELSE "post")

\* The call of execute failed before the hooks: at fopen, in
\* write_hibernate_location_info or in write_mode.
FailedEarly ==
    /\ r < 0 /\ ~StateReturned
    /\ \/ \E i \in At(trace, "fopen", PowerState) : i = 1 /\ trace[i].res = r
       \/ RetOf(trace, "write_hibernate_location_info") = {r} /\ ~ModeReturned
       \/ RetOf(trace, "write_mode") = {r}

\* C19: when a call of execute returns it has run the pre batch and then the
\* post batch, each once and to its end, or no batch at all, and no batch
\* exactly when it failed at fopen, in write_hibernate_location_info or in
\* write_mode; the batches of a whole run, of execute or of execute_s2h with
\* its up to three calls, alternate pre, post, pre, post, and when the run is
\* over as many post batches as pre batches were started and none is running.
C19_HooksPaired ==
    /\ xpc = "ret" =>
          /\ HookPhases(trace) \in {<<>>, <<"pre", "post">>}
          /\ Len(SelectEv(trace, "hooks_end")) = Len(HookPhases(trace))
          /\ (HookPhases(trace) = <<>>) = FailedEarly
          /\ \A b \in At(trace, "hooks_begin", "pre"), c \in At(trace, "hooks_begin", "post") :
                \E e \in At(trace, "hooks_end", "pre") : b < e /\ e < c
    /\ Alternates(RunPhases)
    /\ (spc = "return" \/ pc = "exit") => (Len(RunPhases) % 2 = 0 /\ hooks = "none")

\* execute_s2h returned after three calls of execute: the first ran both
\* batches, the hibernate call failed before its hooks, the last ran both.
C19_Witness ==
    /\ spc = "return" /\ Len(calls) = 3
    /\ calls[1].hooks = <<"pre", "post">> /\ calls[2].hooks = <<>>
    /\ calls[3].hooks = <<"pre", "post">>
    /\ RunPhases = <<"pre", "post", "pre", "post">>

\* C20: for a swap file on a kernel without /sys/power/resume_offset (access
\* fails with ENOENT) write_hibernate_location_info writes neither
\* /sys/power/resume_offset nor /sys/power/resume and returns 0, and execute
\* does not stop there: it writes the modes to /sys/power/disk and, once one
\* is accepted, runs the hooks and writes the states to /sys/power/state, so
\* that it returns the result of write_state with no resume location written.
C20_SleepsWithoutResumeLocation ==
    \A e \in env.loc :
        (LocReturned /\ e.find >= 0 /\ e.type = "file" /\ e.access = ENOENT) =>
            /\ WritesTo(trace, PowerResumeOffset) = <<>>
            /\ WritesTo(trace, PowerResume) = <<>>
            /\ xpc = "ret" =>
                  /\ ModeReturned /\ WritesTo(trace, PowerDisk) # <<>>
                  /\ \A ans \in env.disk : (\E i \in 1..Len(ans) : ans[i] >= 0) =>
                        /\ StateReturned /\ RetOf(trace, "write_state") = {r}
                        /\ Len(WritesTo(trace, PowerState)) >= (IF states = <<>> THEN 0 ELSE 1)

\* A call of execute for a swap file returned success: a state was accepted
\* by /sys/power/state after a mode was accepted by /sys/power/disk, and
\* nothing was written to /sys/power/resume or /sys/power/resume_offset.
C20_Witness ==
    /\ xpc = "ret" /\ r = 0 /\ modes # <<>>
    /\ \E e \in env.loc : e.find >= 0 /\ e.type = "file" /\ e.access = ENOENT
    /\ \E i \in At(trace, "write", PowerState) : trace[i].res >= 0
    /\ \E i \in At(trace, "write", PowerDisk) : trace[i].res >= 0
    /\ FilesWritten(trace) = {PowerDisk, PowerState}

====
